---- MODULE Spec2Model ----
(***************************************************************************)
(* The MultiChain wire codec of Tribler/community/multichain/conversion.py *)
(* as a state machine: a message is built in memory, an encoder or a block *)
(* assembler turns it into bytes, and a decoder or split_function reads    *)
(* the bytes back.                                                         *)
(*                                                                         *)
(* Representation of Python values:                                        *)
(*   - a str is a sequence of bytes 0..255;                                *)
(*   - a signed 32-bit int is an integer;                                  *)
(*   - an unsigned 32- or 64-bit int is the sequence of its base-65536     *)
(*     digits, most significant first (2 digits for 'I', 4 for 'Q'),       *)
(*     because TLC's integers are 32-bit signed;                           *)
(*   - a struct format string is the sequence of its tokens.               *)
(***************************************************************************)
EXTENDS Integers, Sequences, FiniteSets, TLC

VARIABLES native, message, pc, packet, call

vars == <<native, message, pc, packet, call>>

(***************************************************************************)
(* Bounds of the model.                                                    *)
(***************************************************************************)
\* longest run of foreign bytes in front of a packet, and largest offset
MaxOffset == 1
\* most bytes the transport cuts off the end of a packet
MaxCut == 1
\* most bytes that follow a packet in the data (the start of what comes next)
MaxTrail == 1

(***************************************************************************)
(* Module constants, conversion.py lines 8-14.                             *)
(***************************************************************************)
HASH_LENGTH == 32
SIG_LENGTH == 64
PK_LENGTH == 74

\* s * n for a one-character str s whose byte is b
Repeat(b, n) == [i \in 1..n |-> b]

\* '1' * HASH_LENGTH: ord('1') = 49
EMPTY_HASH == Repeat(49, HASH_LENGTH)

\* GENESIS_ID written with the filler character of EMPTY_HASH
GENESIS_ID_as_EMPTY == Repeat(49, HASH_LENGTH)

\* '0' * HASH_LENGTH: ord('0') = 48
GENESIS_ID == Repeat(48, HASH_LENGTH)

(***************************************************************************)
(* struct format strings, conversion.py lines 16-41.  A token is a format  *)
(* character with its repeat count; "!" is the byte-order prefix.          *)
(***************************************************************************)
Fmt(code, n) == [code |-> code, n |-> n]

append_format == <<Fmt("Q", 1), Fmt("Q", 1), Fmt("i", 1), Fmt("s", HASH_LENGTH)>>

common_data_format == <<Fmt("I", 1), Fmt("I", 1)>>

signature_format ==
    <<Fmt("!", 0)>> \o common_data_format \o append_format \o append_format

requester_half_format ==
    <<Fmt("s", PK_LENGTH), Fmt("s", PK_LENGTH)>> \o common_data_format
        \o append_format \o <<Fmt("s", SIG_LENGTH)>>

crawl_request_format == <<Fmt("i", 1)>>

\* authentication_format as the comment above it reads: [signature, pk]
authentication_format_signature_first == <<Fmt("s", SIG_LENGTH), Fmt("s", PK_LENGTH)>>

authentication_format == <<Fmt("s", PK_LENGTH), Fmt("s", SIG_LENGTH)>>

crawl_response_format ==
    signature_format \o authentication_format \o authentication_format

(***************************************************************************)
(* The struct module: calcsize, pack, unpack_from.  A format that starts   *)
(* with "!" is big-endian, standard sizes, no alignment; a format with no  *)
(* prefix is the host's byte order and the host's alignment.               *)
(***************************************************************************)
Standard(fmt) == Len(fmt) > 0 /\ fmt[1].code = "!"

Items(fmt) == IF Standard(fmt) THEN Tail(fmt) ELSE fmt

ByteOrder(fmt) == IF Standard(fmt) THEN "big" ELSE native.byteorder

\* bytes one token occupies: 4 for I and i, 8 for Q, the count for s
ItemSize(it) ==
    CASE it.code = "I" -> 4
      [] it.code = "i" -> 4
      [] it.code = "Q" -> 8
      [] it.code = "s" -> it.n

Alignment(fmt, it) ==
    IF Standard(fmt) THEN 1
    ELSE CASE it.code = "I" -> 4
           [] it.code = "i" -> 4
           [] it.code = "Q" -> native.align_q
           [] it.code = "s" -> 1

\* bytes of padding in front of a token that would start at position at
Padding(fmt, it, at) ==
    LET a == Alignment(fmt, it) IN (a - (at % a)) % a

RECURSIVE SizeFrom(_, _, _)
SizeFrom(fmt, k, size) ==
    IF k > Len(Items(fmt)) THEN size
    ELSE LET it == Items(fmt)[k]
         IN  SizeFrom(fmt, k + 1, size + Padding(fmt, it, size) + ItemSize(it))

calcsize(fmt) == SizeFrom(fmt, 1, 0)

\* the two bytes of each base-65536 digit, most significant byte first
RECURSIVE DigitBytes(_)
DigitBytes(digits) ==
    IF digits = <<>> THEN <<>>
    ELSE <<Head(digits) \div 256, Head(digits) % 256>> \o DigitBytes(Tail(digits))

\* the base-65536 digits of a run of bytes, most significant byte first
RECURSIVE BytesDigits(_)
BytesDigits(bytes) ==
    IF bytes = <<>> THEN <<>>
    ELSE <<bytes[1] * 256 + bytes[2]>> \o BytesDigits(Tail(Tail(bytes)))

Reverse(s) == [i \in 1..Len(s) |-> s[Len(s) + 1 - i]]

\* a big-endian run of bytes in the byte order asked for, and back
Ordered(order, bytes) == IF order = "big" THEN bytes ELSE Reverse(bytes)

\* two's complement: the 32-bit pattern of a signed int, as two digits
ToUnsigned(v) ==
    IF v >= 0 THEN <<v \div 65536, v % 65536>>
    ELSE LET m == (v + 2147483647) + 1
         IN  <<32768 + (m \div 65536), m % 65536>>

\* the signed int of a 32-bit pattern
ToSigned(d) ==
    IF d[1] < 32768 THEN d[1] * 65536 + d[2]
    ELSE (((d[1] - 32768) * 65536 + d[2]) - 2147483647) - 1

\* 's': a str longer than the count is cut, a shorter one is filled with NULs
FitString(v, n) ==
    IF Len(v) >= n THEN SubSeq(v, 1, n) ELSE v \o Repeat(0, n - Len(v))

PackItem(fmt, it, v) ==
    CASE it.code = "I" -> Ordered(ByteOrder(fmt), DigitBytes(v))
      [] it.code = "Q" -> Ordered(ByteOrder(fmt), DigitBytes(v))
      [] it.code = "i" -> Ordered(ByteOrder(fmt), DigitBytes(ToUnsigned(v)))
      [] it.code = "s" -> FitString(v, it.n)

RECURSIVE PackFrom(_, _, _, _)
PackFrom(fmt, values, k, out) ==
    IF k > Len(Items(fmt)) THEN out
    ELSE LET it == Items(fmt)[k]
         IN  PackFrom(fmt, values, k + 1,
                      out \o Repeat(0, Padding(fmt, it, Len(out)))
                          \o PackItem(fmt, it, values[k]))

pack(fmt, values) == PackFrom(fmt, values, 1, <<>>)

UnpackItem(fmt, it, bytes) ==
    CASE it.code = "I" -> BytesDigits(Ordered(ByteOrder(fmt), bytes))
      [] it.code = "Q" -> BytesDigits(Ordered(ByteOrder(fmt), bytes))
      [] it.code = "i" -> ToSigned(BytesDigits(Ordered(ByteOrder(fmt), bytes)))
      [] it.code = "s" -> bytes

RECURSIVE UnpackFrom(_, _, _, _, _)
UnpackFrom(fmt, data, k, at, base) ==
    IF k > Len(Items(fmt)) THEN <<>>
    ELSE LET it == Items(fmt)[k]
             start == at + Padding(fmt, it, at)
             bytes == SubSeq(data, base + start + 1, base + start + ItemSize(it))
         IN  <<UnpackItem(fmt, it, bytes)>>
                 \o UnpackFrom(fmt, data, k + 1, start + ItemSize(it), base)

\* the tuple of values, or the error struct raises when the buffer is short
unpack_from(fmt, data, offset) ==
    LET start == IF offset < 0 THEN offset + Len(data) ELSE offset
    IN  IF start < 0 \/ Len(data) - start < calcsize(fmt)
        THEN [raised |-> "struct.error"]
        ELSE [raised |-> "", values |-> UnpackFrom(fmt, data, 1, 0, start)]

signature_size == calcsize(signature_format)

append_size == calcsize(append_format)

crawl_request_size == calcsize(crawl_request_format)

crawl_response_size == calcsize(crawl_response_format)

(***************************************************************************)
(* Payloads.  placeholder.meta.payload.implement builds the payload of     *)
(* the placeholder's message kind from the unpacked values, taken in the   *)
(* order of the wire layout.                                               *)
(***************************************************************************)
implement(placeholder, values) ==
    CASE placeholder.meta = "signature" ->
           [up |-> values[1], down |-> values[2],
            total_up_requester |-> values[3], total_down_requester |-> values[4],
            sequence_number_requester |-> values[5],
            previous_hash_requester |-> values[6],
            total_up_responder |-> values[7], total_down_responder |-> values[8],
            sequence_number_responder |-> values[9],
            previous_hash_responder |-> values[10]]
      [] placeholder.meta = "crawl_request" ->
           [requested_sequence_number |-> values[1]]
      [] placeholder.meta = "crawl_response" ->
           [up |-> values[1], down |-> values[2],
            total_up_requester |-> values[3], total_down_requester |-> values[4],
            sequence_number_requester |-> values[5],
            previous_hash_requester |-> values[6],
            total_up_responder |-> values[7], total_down_responder |-> values[8],
            sequence_number_responder |-> values[9],
            previous_hash_responder |-> values[10],
            public_key_requester |-> values[11],
            signature_requester |-> values[12],
            public_key_responder |-> values[13],
            signature_responder |-> values[14]]
      [] placeholder.meta = "crawl_resume" -> <<>>

(***************************************************************************)
(* MultiChainConversion, conversion.py lines 63-165.  An encoder returns a *)
(* 1-tuple holding the buffer; a decoder returns (offset, payload) or      *)
(* raises DropPacket.                                                      *)
(***************************************************************************)

\* _encode_signature with the responder's four fields before the requester's
_encode_signature_responder_first(msg) ==
    LET payload == msg.payload
    IN  <<pack(signature_format,
               <<payload.up, payload.down,
                 payload.total_up_responder, payload.total_down_responder,
                 payload.sequence_number_responder, payload.previous_hash_responder,
                 payload.total_up_requester, payload.total_down_requester,
                 payload.sequence_number_requester, payload.previous_hash_requester>>)>>

\* _encode_signature with the requester's two totals in each other's place
_encode_signature_swapped(msg) ==
    LET payload == msg.payload
    IN  <<pack(signature_format,
               <<payload.up, payload.down,
                 payload.total_down_requester, payload.total_up_requester,
                 payload.sequence_number_requester, payload.previous_hash_requester,
                 payload.total_up_responder, payload.total_down_responder,
                 payload.sequence_number_responder, payload.previous_hash_responder>>)>>

_encode_signature(msg) ==
    LET payload == msg.payload
    IN  <<pack(signature_format,
               <<payload.up, payload.down,
                 payload.total_up_requester, payload.total_down_requester,
                 payload.sequence_number_requester, payload.previous_hash_requester,
                 payload.total_up_responder, payload.total_down_responder,
                 payload.sequence_number_responder, payload.previous_hash_responder>>)>>

\* _decode_signature unpacking from the start of the data, not from offset
_decode_signature_from_start(placeholder, offset, data) ==
    IF Len(data) < offset + signature_size
    THEN [raised |-> "DropPacket"]
    ELSE LET u == unpack_from(signature_format, data, 0)
         IN  IF u.raised # "" THEN u
             ELSE [raised |-> "",
                   ret |-> <<offset + signature_size, implement(placeholder, u.values)>>]

_decode_signature(placeholder, offset, data) ==
    IF Len(data) < offset + signature_size
    THEN [raised |-> "DropPacket"]
    ELSE LET u == unpack_from(signature_format, data, offset)
         IN  IF u.raised # "" THEN u
             ELSE [raised |-> "",
                   ret |-> <<offset + signature_size, implement(placeholder, u.values)>>]

_encode_crawl_request(msg) ==
    <<pack(crawl_request_format, <<msg.payload.requested_sequence_number>>)>>

_decode_crawl_request(placeholder, offset, data) ==
    IF Len(data) < offset + crawl_request_size
    THEN [raised |-> "DropPacket"]
    ELSE LET u == unpack_from(crawl_request_format, data, offset)
         IN  IF u.raised # "" THEN u
             ELSE [raised |-> "",
                   ret |-> <<offset + crawl_request_size,
                             implement(placeholder, u.values)>>]

_decode_crawl_response(placeholder, offset, data) ==
    IF Len(data) < offset + crawl_response_size
    THEN [raised |-> "DropPacket"]
    ELSE LET u == unpack_from(crawl_response_format, data, offset)
         IN  IF u.raised # "" THEN u
             ELSE [raised |-> "",
                   ret |-> <<offset + crawl_response_size,
                             implement(placeholder, u.values)>>]

_encode_crawl_resume(msg) == << <<>> >>

_decode_crawl_resume(placeholder, offset, data) ==
    [raised |-> "", ret |-> <<offset, implement(placeholder, <<>>)>>]

(***************************************************************************)
(* split_function and the block assemblers, conversion.py lines 168-220.   *)
(***************************************************************************)
\* s[:stop] of Python
SliceTo(s, stop) ==
    LET e == IF stop < 0 THEN stop + Len(s) ELSE stop
        end == IF e < 0 THEN 0 ELSE IF e > Len(s) THEN Len(s) ELSE e
    IN  SubSeq(s, 1, end)


\* split_function with the sign of the slice bound lost: payload[:append_size]
split_function_head(payload) == <<SliceTo(payload, append_size), payload>>

split_function(payload) == <<SliceTo(payload, 0 - append_size), payload>>


\* encode_block in the order of the comment above crawl_response_format:
\* signature before public key
encode_block_signature_first(payload, requester, responder) ==
    IF Len(requester[2].public_key) # PK_LENGTH THEN [raised |-> "AssertionError"]
    ELSE IF Len(responder[2].public_key) # PK_LENGTH THEN [raised |-> "AssertionError"]
    ELSE [raised |-> "",
          ret |-> pack(crawl_response_format,
               <<payload.up, payload.down,
                 payload.total_up_requester, payload.total_down_requester,
                 payload.sequence_number_requester, payload.previous_hash_requester,
                 payload.total_up_responder, payload.total_down_responder,
                 payload.sequence_number_responder, payload.previous_hash_responder,
                 requester[1], requester[2].public_key,
                 responder[1], responder[2].public_key>>)]

\* encode_block with the second assertion testing the requester again
encode_block_one_assert(payload, requester, responder) ==
    IF Len(requester[2].public_key) # PK_LENGTH THEN [raised |-> "AssertionError"]
    ELSE [raised |-> "",
          ret |-> pack(crawl_response_format,
               <<payload.up, payload.down,
                 payload.total_up_requester, payload.total_down_requester,
                 payload.sequence_number_requester, payload.previous_hash_requester,
                 payload.total_up_responder, payload.total_down_responder,
                 payload.sequence_number_responder, payload.previous_hash_responder,
                 requester[2].public_key, requester[1],
                 responder[2].public_key, responder[1]>>)]

\* requester and responder are (signature, member) pairs: x[0] is x[1] here
encode_block(payload, requester, responder) ==
    IF Len(requester[2].public_key) # PK_LENGTH THEN [raised |-> "AssertionError"]
    ELSE IF Len(responder[2].public_key) # PK_LENGTH THEN [raised |-> "AssertionError"]
    ELSE [raised |-> "",
          ret |-> pack(crawl_response_format,
               <<payload.up, payload.down,
                 payload.total_up_requester, payload.total_down_requester,
                 payload.sequence_number_requester, payload.previous_hash_requester,
                 payload.total_up_responder, payload.total_down_responder,
                 payload.sequence_number_responder, payload.previous_hash_responder,
                 requester[2].public_key, requester[1],
                 responder[2].public_key, responder[1]>>)]


\* encode_block_requester_half packing with the full signature layout in the middle
encode_block_requester_half_both(payload, public_key_requester, public_key_responder, signature_requester) ==
    pack(<<Fmt("s", PK_LENGTH), Fmt("s", PK_LENGTH)>> \o common_data_format
             \o append_format \o append_format \o <<Fmt("s", SIG_LENGTH)>>,
         <<public_key_requester, public_key_responder,
           payload.up, payload.down,
           payload.total_up_requester, payload.total_down_requester,
           payload.sequence_number_requester, payload.previous_hash_requester,
           payload.total_up_requester, payload.total_down_requester,
           payload.sequence_number_requester, payload.previous_hash_requester,
           signature_requester>>)

encode_block_requester_half(payload, public_key_requester, public_key_responder, signature_requester) ==
    pack(requester_half_format,
         <<public_key_requester, public_key_responder,
           payload.up, payload.down,
           payload.total_up_requester, payload.total_down_requester,
           payload.sequence_number_requester, payload.previous_hash_requester,
           signature_requester>>)


\* encode_block_crawl in the order of the comment above crawl_response_format:
\* signature before public key
encode_block_crawl_signature_first(payload) ==
    pack(crawl_response_format,
         <<payload.up, payload.down,
           payload.total_up_requester, payload.total_down_requester,
           payload.sequence_number_requester, payload.previous_hash_requester,
           payload.total_up_responder, payload.total_down_responder,
           payload.sequence_number_responder, payload.previous_hash_responder,
           payload.signature_requester, payload.public_key_requester,
           payload.signature_responder, payload.public_key_responder>>)

encode_block_crawl(payload) ==
    pack(crawl_response_format,
         <<payload.up, payload.down,
           payload.total_up_requester, payload.total_down_requester,
           payload.sequence_number_requester, payload.previous_hash_requester,
           payload.total_up_responder, payload.total_down_responder,
           payload.sequence_number_responder, payload.previous_hash_responder,
           payload.public_key_requester, payload.signature_requester,
           payload.public_key_responder, payload.signature_responder>>)

_encode_crawl_response(msg) ==
    LET payload == msg.payload IN <<encode_block_crawl(payload)>>

\* the decoder define_meta_message registers for a message kind
decode_payload(kind, offset, data) ==
    CASE kind = "signature" -> _decode_signature([meta |-> kind], offset, data)
      [] kind = "crawl_request" -> _decode_crawl_request([meta |-> kind], offset, data)
      [] kind = "crawl_response" -> _decode_crawl_response([meta |-> kind], offset, data)
      [] kind = "crawl_resume" -> _decode_crawl_resume([meta |-> kind], offset, data)

(***************************************************************************)
(* The values the model draws its inputs from.                             *)
(***************************************************************************)
\* the bytes the transport puts in front of a packet
Foreign(n) == Repeat(170, n)

Pattern(n, first) == [i \in 1..n |-> (first + i - 1) % 256]

UpDowns ==
    { << <<0, 5>>, <<0, 10>> >>,
      << <<65535, 65535>>, <<258, 772>> >> }

Side(total_up, total_down, sequence_number, previous_hash) ==
    [total_up |-> total_up, total_down |-> total_down,
     sequence_number |-> sequence_number, previous_hash |-> previous_hash]

Side1 == Side(<<0, 0, 0, 100>>, <<0, 0, 0, 50>>, 3, GENESIS_ID)
Side2 == Side(<<0, 0, 0, 100>>, <<0, 0, 0, 50>>, 7, GENESIS_ID)
Side3 == Side(<<65535, 65535, 65535, 65535>>, <<258, 772, 1286, 1800>>,
              0 - 1, EMPTY_HASH)
Side4 == Side(<<258, 772, 1286, 1800>>, <<0, 0, 0, 0>>,
              (0 - 2147483647) - 1, Pattern(HASH_LENGTH, 240))

Sides == {Side1, Side2, Side3, Side4}

SignaturePayload(ud, req, resp) ==
    [up |-> ud[1], down |-> ud[2],
     total_up_requester |-> req.total_up,
     total_down_requester |-> req.total_down,
     sequence_number_requester |-> req.sequence_number,
     previous_hash_requester |-> req.previous_hash,
     total_up_responder |-> resp.total_up,
     total_down_responder |-> resp.total_down,
     sequence_number_responder |-> resp.sequence_number,
     previous_hash_responder |-> resp.previous_hash]

SignaturePayloads ==
    {SignaturePayload(ud, req, resp) : ud \in UpDowns, req \in Sides, resp \in Sides}

SequenceNumbers ==
    {0, 1, 3, 0 - 1, 0 - 2, 16909060, 2147483647, (0 - 2147483647) - 1}

CrawlRequestPayloads == {[requested_sequence_number |-> n] : n \in SequenceNumbers}

PK_A == Pattern(PK_LENGTH, 1)
PK_B == Pattern(PK_LENGTH, 101)
SIG_A == Pattern(SIG_LENGTH, 128)
SIG_B == Pattern(SIG_LENGTH, 200)

\* keys and signatures of the right width, one byte short and one byte long
PublicKeys == {PK_A, PK_B, SubSeq(PK_A, 1, PK_LENGTH - 1), PK_B \o <<7>>}
Signatures == {SIG_A, SIG_B, SubSeq(SIG_A, 1, SIG_LENGTH - 1), SIG_B \o <<9>>}

\* a dispersy member, of which only the public key is read
Member(public_key) == [public_key |-> public_key]

\* (signature, member) as encode_block takes them
Identities ==
    { <<SIG_A, Member(PK_A)>>, <<SIG_B, Member(PK_B)>>,
      <<SIG_A, Member(SubSeq(PK_A, 1, PK_LENGTH - 1))>>,
      <<SIG_B, Member(PK_B \o <<7>>)>>,
      <<SubSeq(SIG_A, 1, SIG_LENGTH - 1), Member(PK_A)>>,
      <<SIG_B \o <<9>>, Member(PK_B)>> }

WellFormed(id) == Len(id[1]) = SIG_LENGTH /\ Len(id[2].public_key) = PK_LENGTH

\* requester and responder, at most one of them of a wrong width
IdentityPairs ==
    {p \in Identities \X Identities : WellFormed(p[1]) \/ WellFormed(p[2])}

\* a payload that carries both sides' keys and signatures as attributes
WithIdentities(payload, requester, responder) ==
    [up |-> payload.up, down |-> payload.down,
     total_up_requester |-> payload.total_up_requester,
     total_down_requester |-> payload.total_down_requester,
     sequence_number_requester |-> payload.sequence_number_requester,
     previous_hash_requester |-> payload.previous_hash_requester,
     total_up_responder |-> payload.total_up_responder,
     total_down_responder |-> payload.total_down_responder,
     sequence_number_responder |-> payload.sequence_number_responder,
     previous_hash_responder |-> payload.previous_hash_responder,
     public_key_requester |-> requester[2].public_key,
     signature_requester |-> requester[1],
     public_key_responder |-> responder[2].public_key,
     signature_responder |-> responder[1]]

CrawlResponsePayloads ==
    {WithIdentities(SignaturePayload(c[1], c[2], c[3]), p[1], p[2]) :
        c \in { <<<< <<0, 5>>, <<0, 10>> >>, Side1, Side2>>,
                <<<< <<65535, 65535>>, <<258, 772>> >>, Side3, Side4>> },
        p \in IdentityPairs}

\* x86-64, 32-bit x86 (8-byte integers aligned to 4) and a big-endian host
Platforms ==
    { [byteorder |-> "little", align_q |-> 8],
      [byteorder |-> "little", align_q |-> 4],
      [byteorder |-> "big", align_q |-> 8] }

\* what arrives of a packet: foreign bytes in front, its end cut off
\* the bytes that follow a packet in the data
Following(n) == Repeat(85, n)

\* what arrives of a packet: foreign bytes in front, its end cut off, or
\* whole with other bytes behind it
Received(buf) ==
    {Foreign(pre) \o SubSeq(buf, 1, Len(buf) - cut) \o Following(post) :
        pre \in 0..MaxOffset,
        cut \in {c \in 0..MaxCut : c <= Len(buf)},
        post \in 0..MaxTrail}

Offsets == 0..MaxOffset

(***************************************************************************)
(* The state machine.  message is the message built in memory, packet the  *)
(* bytes an encoder put on the wire, call the last call with its           *)
(* arguments and what it returned or raised, pc where the message is.      *)
(***************************************************************************)
Message(kind, payload) == [kind |-> kind, payload |-> payload]

Placeholder(kind) == [meta |-> kind]

Init ==
    /\ native \in Platforms
    /\ \/ \E p \in SignaturePayloads : message = Message("signature", p)
       \/ \E p \in CrawlRequestPayloads : message = Message("crawl_request", p)
       \/ \E p \in CrawlResponsePayloads : message = Message("crawl_response", p)
       \/ message = Message("crawl_resume", <<>>)
    /\ pc = "built"
    /\ packet = <<>>
    /\ call = [fn |-> ""]

Sent(fn, ret) ==
    /\ packet' = ret[1]
    /\ call' = [fn |-> fn, ret |-> ret]
    /\ pc' = "sent"
    /\ UNCHANGED <<native, message>>

EncodeSignature ==
    /\ pc = "built"
    /\ message.kind = "signature"
    /\ Sent("_encode_signature", _encode_signature(message))

EncodeCrawlRequest ==
    /\ pc = "built"
    /\ message.kind = "crawl_request"
    /\ Sent("_encode_crawl_request", _encode_crawl_request(message))

EncodeCrawlResponse ==
    /\ pc = "built"
    /\ message.kind = "crawl_response"
    /\ Sent("_encode_crawl_response", _encode_crawl_response(message))

EncodeCrawlResume ==
    /\ pc = "built"
    /\ message.kind = "crawl_resume"
    /\ Sent("_encode_crawl_resume", _encode_crawl_resume(message))

Decoded(fn, kind, offset, data, out) ==
    /\ call' = [fn |-> fn, kind |-> kind, offset |-> offset, data |-> data, out |-> out]
    /\ pc' = "received"
    /\ UNCHANGED <<native, message, packet>>

DecodeSignature ==
    /\ pc = "sent"
    /\ \E data \in Received(packet), offset \in Offsets :
          Decoded("_decode_signature", "signature", offset, data,
                  _decode_signature(Placeholder("signature"), offset, data))

DecodeCrawlRequest ==
    /\ pc = "sent"
    /\ \E data \in Received(packet), offset \in Offsets :
          Decoded("_decode_crawl_request", "crawl_request", offset, data,
                  _decode_crawl_request(Placeholder("crawl_request"), offset, data))

DecodeCrawlResponse ==
    /\ pc = "sent"
    /\ \E data \in Received(packet), offset \in Offsets :
          Decoded("_decode_crawl_response", "crawl_response", offset, data,
                  _decode_crawl_response(Placeholder("crawl_response"), offset, data))

DecodeCrawlResume ==
    /\ pc = "sent"
    /\ \E data \in Received(packet), offset \in Offsets :
          Decoded("_decode_crawl_resume", "crawl_resume", offset, data,
                  _decode_crawl_resume(Placeholder("crawl_resume"), offset, data))

SplitFunction ==
    /\ pc = "sent"
    /\ call' = [fn |-> "split_function", payload |-> packet,
                ret |-> split_function(packet)]
    /\ pc' = "split"
    /\ UNCHANGED <<native, message, packet>>

EncodeBlock ==
    /\ pc = "built"
    /\ message.kind = "signature"
    /\ \E p \in IdentityPairs :
          call' = [fn |-> "encode_block", requester |-> p[1], responder |-> p[2],
                   out |-> encode_block(message.payload, p[1], p[2])]
    /\ pc' = "assembled"
    /\ UNCHANGED <<native, message, packet>>

EncodeBlockRequesterHalf ==
    /\ pc = "built"
    /\ message.kind = "signature"
    /\ \E pkq \in PublicKeys, pkr \in PublicKeys, sig \in Signatures :
          call' = [fn |-> "encode_block_requester_half",
                   public_key_requester |-> pkq, public_key_responder |-> pkr,
                   signature_requester |-> sig,
                   ret |-> encode_block_requester_half(message.payload, pkq, pkr, sig)]
    /\ pc' = "assembled"
    /\ UNCHANGED <<native, message, packet>>

EncodeBlockCrawl ==
    /\ pc = "built"
    /\ message.kind = "crawl_response"
    /\ call' = [fn |-> "encode_block_crawl", ret |-> encode_block_crawl(message.payload)]
    /\ pc' = "assembled"
    /\ UNCHANGED <<native, message, packet>>

Next ==
    \/ EncodeSignature
    \/ EncodeCrawlRequest
    \/ EncodeCrawlResponse
    \/ EncodeCrawlResume
    \/ DecodeSignature
    \/ DecodeCrawlRequest
    \/ DecodeCrawlResponse
    \/ DecodeCrawlResume
    \/ SplitFunction
    \/ EncodeBlock
    \/ EncodeBlockRequesterHalf
    \/ EncodeBlockCrawl

Spec == Init /\ [][Next]_vars

(***************************************************************************)
(* The properties.                                                         *)
(***************************************************************************)
\* the fixed sizes of the wire format table: 112, 4, 388 and 0 bytes
WireSize(kind) ==
    CASE kind = "signature" -> 112
      [] kind = "crawl_request" -> 4
      [] kind = "crawl_response" -> 388
      [] kind = "crawl_resume" -> 0

\* a record whose keys and signatures have their fixed widths
ValidMessage ==
    message.kind = "crawl_response" =>
        /\ Len(message.payload.public_key_requester) = PK_LENGTH
        /\ Len(message.payload.public_key_responder) = PK_LENGTH
        /\ Len(message.payload.signature_requester) = SIG_LENGTH
        /\ Len(message.payload.signature_responder) = SIG_LENGTH

\* the packet arrived whole and alone, and is decoded as its own kind from 0
DecodedWhole ==
    /\ pc = "received"
    /\ call.kind = message.kind
    /\ call.data = packet
    /\ call.offset = 0

\* C1: round trip.  The encoder of each of the four kinds turns a valid record
\* into one buffer of the kind's fixed size (112, 4, 388, 0 bytes), and decoding
\* that buffer at offset 0 succeeds and returns (size, record) with every field
\* equal to the encoded one, negative sequence numbers included.
RoundTrip ==
    /\ (pc = "sent" /\ ValidMessage) =>
          /\ Len(call.ret) = 1
          /\ call.ret[1] = packet
          /\ Len(packet) = WireSize(message.kind)
    /\ (DecodedWhole /\ ValidMessage) =>
          /\ call.out.raised = ""
          /\ call.out.ret = <<WireSize(message.kind), message.payload>>

\* a crawl response with well-formed keys and a negative sequence number has
\* gone through encode and decode
RoundTripWitness ==
    /\ DecodedWhole
    /\ message.kind = "crawl_response"
    /\ ValidMessage
    /\ message.payload.sequence_number_requester < 0
    /\ call.out.raised = ""

\* C2: truncation detection.  Whenever fewer bytes than the kind's fixed size
\* remain after the offset, the decoder of every kind raises DropPacket and
\* returns neither a record nor an offset.
TruncationDetected ==
    (pc = "received" /\ Len(call.data) - call.offset < WireSize(call.kind)) =>
        call.out = [raised |-> "DropPacket"]

\* C3: split invariant.  split_function of a Signature buffer (112 bytes)
\* returns the buffer itself as second component and as first component its
\* first len - 52 bytes, 52 = 8 + 8 + 4 + 32 being append_size.
SplitInvariant ==
    (pc = "split" /\ message.kind = "signature") =>
        /\ Len(call.payload) = 112
        /\ append_size = 8 + 8 + 4 + 32
        /\ call.ret[2] = call.payload
        /\ Len(call.ret[1]) + 52 = Len(call.payload)
        /\ \A i \in 1..Len(call.ret[1]) : call.ret[1][i] = call.payload[i]

\* a Signature buffer has been split into a 60-byte prefix and the whole
SplitWitness ==
    /\ pc = "split"
    /\ message.kind = "signature"
    /\ Len(call.ret[1]) = 60
    /\ Len(call.ret[2]) = 112

\* C4: assembler equivalence.  With 74-byte keys and 64-byte signatures,
\* encode_block, given them as the two identities, returns the very bytes
\* encode_block_crawl returns for the same record carrying them as attributes.
AssemblerEquivalence ==
    (/\ pc = "assembled"
     /\ call.fn = "encode_block"
     /\ WellFormed(call.requester)
     /\ WellFormed(call.responder)) =>
        /\ call.out.raised = ""
        /\ call.out.ret =
              encode_block_crawl(
                  WithIdentities(message.payload, call.requester, call.responder))

\* encode_block has returned a buffer for two well-formed, different identities
AssemblerEquivalenceWitness ==
    /\ pc = "assembled"
    /\ call.fn = "encode_block"
    /\ WellFormed(call.requester)
    /\ WellFormed(call.responder)
    /\ call.requester # call.responder
    /\ call.out.raised = ""
    /\ Len(call.out.ret) = 388

\* an unsigned integer in network order: its bytes, most significant first
Network(digits) == DigitBytes(digits)

\* a signed 32-bit integer in network order, two's complement
Network32(v) == DigitBytes(ToUnsigned(v))

\* up, down and the requester's four fields in network order, nothing between
RequesterLayout(payload) ==
    Network(payload.up) \o Network(payload.down)
        \o Network(payload.total_up_requester)
        \o Network(payload.total_down_requester)
        \o Network32(payload.sequence_number_requester)
        \o payload.previous_hash_requester

\* the responder's four fields in network order, nothing between
ResponderLayout(payload) ==
    Network(payload.total_up_responder)
        \o Network(payload.total_down_responder)
        \o Network32(payload.sequence_number_responder)
        \o payload.previous_hash_responder

HalfWellFormed ==
    /\ Len(call.public_key_requester) = PK_LENGTH
    /\ Len(call.public_key_responder) = PK_LENGTH
    /\ Len(call.signature_requester) = SIG_LENGTH

\* C5: byte order.  Every multi-byte integer an encoder or assembler writes
\* (Signature, CrawlRequest, CrawlResponse, the requester-half buffer) is in
\* network order with no padding, whatever the host's byte order and alignment.
NetworkByteOrder ==
    /\ (pc = "sent" /\ message.kind = "signature") =>
          packet = RequesterLayout(message.payload) \o ResponderLayout(message.payload)
    /\ (pc = "sent" /\ message.kind = "crawl_request") =>
          packet = Network32(message.payload.requested_sequence_number)
    /\ (pc = "sent" /\ message.kind = "crawl_response" /\ ValidMessage) =>
          packet = RequesterLayout(message.payload) \o ResponderLayout(message.payload)
                      \o message.payload.public_key_requester
                      \o message.payload.signature_requester
                      \o message.payload.public_key_responder
                      \o message.payload.signature_responder
    /\ (pc = "assembled" /\ call.fn = "encode_block_requester_half" /\ HalfWellFormed) =>
          call.ret = call.public_key_requester \o call.public_key_responder
                        \o RequesterLayout(message.payload)
                        \o call.signature_requester

\* C6: encode_block given a requester or responder public key that is not
\* exactly 74 bytes long raises (AssertionError) and returns no buffer.
KeyLengthAsserted ==
    (/\ pc = "assembled"
     /\ call.fn = "encode_block"
     /\ \/ Len(call.requester[2].public_key) # 74
        \/ Len(call.responder[2].public_key) # 74) =>
        call.out = [raised |-> "AssertionError"]

\* encode_block has raised for a 73-byte requester key, or for a 75-byte
\* responder key after a 74-byte requester key
KeyLengthAssertedWitness ==
    /\ pc = "assembled"
    /\ call.fn = "encode_block"
    /\ \/ Len(call.requester[2].public_key) = 73
       \/ /\ Len(call.requester[2].public_key) = 74
          /\ Len(call.responder[2].public_key) = 75
    /\ call.out.raised = "AssertionError"

\* C7: every assembler raises when a public key is not exactly 74 bytes or a
\* signature not exactly 64 bytes; none returns a buffer for such an input.
WidthsEnforced ==
    /\ (pc = "assembled" /\ call.fn = "encode_block"
            /\ ~(WellFormed(call.requester) /\ WellFormed(call.responder))) =>
          call.out.raised # ""
    /\ (pc = "assembled" /\ call.fn = "encode_block_requester_half") =>
          HalfWellFormed
    /\ (pc = "assembled" /\ call.fn = "encode_block_crawl") =>
          ValidMessage

RequesterHalfLength332 ==
    (pc = "assembled" /\ call.fn = "encode_block_requester_half" /\ HalfWellFormed) =>
        Len(call.ret) = PK_LENGTH * 2 + 8 + 112 + SIG_LENGTH

\* C9, amended: the requester-half buffer is PK_LENGTH*2 + 8 + 52 + SIG_LENGTH
\* = 272 bytes long, plus the 4 bytes the host puts in front of the first
\* 64-bit field where it aligns 64-bit integers to 8 bytes (276 there).
RequesterHalfLength ==
    (pc = "assembled" /\ call.fn = "encode_block_requester_half" /\ HalfWellFormed) =>
        Len(call.ret) = PK_LENGTH * 2 + 8 + 52 + SIG_LENGTH
                            + (IF native.align_q = 8 THEN 4 ELSE 0)

\* a requester half has been assembled, on a host that pads (276 bytes) or on
\* one that does not (272 bytes)
RequesterHalfLengthWitness ==
    /\ pc = "assembled"
    /\ call.fn = "encode_block_requester_half"
    /\ HalfWellFormed
    /\ \/ native.align_q = 8 /\ Len(call.ret) = 276
       \/ native.align_q = 4 /\ Len(call.ret) = 272

\* the first hash field of a Signature packet: bytes 29..60
HashRequesterOnWire == SubSeq(packet, 29, 60)

OutsideChanged(data, lo, hi) ==
    [i \in 1..Len(data) |-> IF i >= lo /\ i <= hi THEN data[i] ELSE 255 - data[i]]

\* the byte at position i replaced by another value
ByteChanged(data, i) == [data EXCEPT ![i] = 255 - data[i]]

\* the decoder was given at least the kind's fixed size of bytes after offset
DecodedInFull ==
    /\ pc = "received"
    /\ call.offset >= 0
    /\ Len(call.data) - call.offset >= WireSize(call.kind)

\* C11: decode at an offset.  With at least size(kind) bytes after the offset
\* the decoder of every kind succeeds and returns offset + size(kind) (the
\* offset itself for CrawlResume), and what it returns depends on the size(kind)
\* bytes from the offset only: the data with all other bytes changed, with the
\* last byte before or the first byte after the window changed, or cut down
\* to the window, decodes to the same record.
DecodeAtOffset ==
    DecodedInFull =>
        LET size == WireSize(call.kind)
            lo == call.offset + 1
            hi == call.offset + size
        IN  /\ call.out.raised = ""
            /\ call.out.ret[1] = call.offset + size
            /\ call.kind = "crawl_resume" => call.out.ret[1] = call.offset
            /\ decode_payload(call.kind, call.offset,
                              OutsideChanged(call.data, lo, hi)) = call.out
            /\ \A i \in {lo - 1, hi + 1} \cap (1..Len(call.data)) :
                  decode_payload(call.kind, call.offset,
                                 ByteChanged(call.data, i)) = call.out
            /\ decode_payload(call.kind, 0, SubSeq(call.data, lo, hi))
                  = [raised |-> "", ret |-> <<size, call.out.ret[2]>>]

\* a Signature packet was decoded at offset 1, with a byte in front of it and
\* a byte behind it
DecodeAtOffsetWitness ==
    /\ DecodedInFull
    /\ call.kind = "signature"
    /\ message.kind = "signature"
    /\ call.offset = 1
    /\ call.data = Foreign(1) \o packet \o Following(1)
    /\ call.out.raised = ""
    /\ call.out.ret = <<113, message.payload>>

\* other values of an unsigned 32-bit field: the lowest byte, the highest byte
OtherU32 == {<<0, 6>>, <<256, 5>>, <<32768, 10>>, <<65535, 65534>>}

\* other values of an unsigned 64-bit field
OtherU64 == {<<0, 0, 0, 101>>, <<256, 0, 0, 100>>, <<0, 0, 1, 50>>,
             <<65535, 65535, 65535, 65534>>}

\* other sequence numbers, negative ones included
OtherSequence == {4, 0 - 3, 0 - 7, 2147483647, 65536 + 3}

\* other hashes: the sentinels with their first or last byte changed
OtherHash ==
    {[GENESIS_ID EXCEPT ![1] = 49], [GENESIS_ID EXCEPT ![HASH_LENGTH] = 49],
     [EMPTY_HASH EXCEPT ![HASH_LENGTH] = 48], Pattern(HASH_LENGTH, 241)}

\* the records that differ from payload in up, down or one requester field
RequesterVariations(payload) ==
    {[payload EXCEPT !.up = v] : v \in OtherU32}
        \cup {[payload EXCEPT !.down = v] : v \in OtherU32}
        \cup {[payload EXCEPT !.total_up_requester = v] : v \in OtherU64}
        \cup {[payload EXCEPT !.total_down_requester = v] : v \in OtherU64}
        \cup {[payload EXCEPT !.sequence_number_requester = v] : v \in OtherSequence}
        \cup {[payload EXCEPT !.previous_hash_requester = v] : v \in OtherHash}

\* the records that differ from payload in one responder field
ResponderVariations(payload) ==
    {[payload EXCEPT !.total_up_responder = v] : v \in OtherU64}
        \cup {[payload EXCEPT !.total_down_responder = v] : v \in OtherU64}
        \cup {[payload EXCEPT !.sequence_number_responder = v] : v \in OtherSequence}
        \cup {[payload EXCEPT !.previous_hash_responder = v] : v \in OtherHash}

\* two records agree on up, down and the requester's four fields
SameRequester(r1, r2) ==
    /\ r1.up = r2.up
    /\ r1.down = r2.down
    /\ r1.total_up_requester = r2.total_up_requester
    /\ r1.total_down_requester = r2.total_down_requester
    /\ r1.sequence_number_requester = r2.sequence_number_requester
    /\ r1.previous_hash_requester = r2.previous_hash_requester

\* the bytes the requester signs for a record
SignedPrefix(payload) ==
    split_function(_encode_signature([kind |-> "signature", payload |-> payload])[1])[1]

\* a Signature packet has been split
SignatureSplit == pc = "split" /\ message.kind = "signature"

\* C12: requester commitment.  The prefix split_function returns for an encoded
\* Signature record is the same for every record that agrees with it on up,
\* down and the requester's four fields, whatever the responder's fields, and
\* differs for every record that differs in one of those six.
RequesterCommitment ==
    SignatureSplit =>
        \A other \in SignaturePayloads
                        \cup RequesterVariations(message.payload)
                        \cup ResponderVariations(message.payload) :
            SameRequester(message.payload, other)
                <=> SignedPrefix(other) = call.ret[1]

\* a Signature packet has been split whose prefix stays when the responder's
\* sequence number changes and changes when the last byte of the requester's
\* hash does
RequesterCommitmentWitness ==
    /\ SignatureSplit
    /\ message.payload.previous_hash_requester = GENESIS_ID
    /\ message.payload.sequence_number_responder < 0
    /\ SignedPrefix([message.payload EXCEPT !.sequence_number_responder = 4])
          = call.ret[1]
    /\ SignedPrefix([message.payload EXCEPT
                        !.previous_hash_requester = [GENESIS_ID EXCEPT ![HASH_LENGTH] = 49]])
          # call.ret[1]

\* the 112-byte Signature encoding of a record's up, down and two sides
SignatureEncoding(payload) ==
    _encode_signature([kind |-> "signature", payload |-> payload])[1]

====
